---- MODULE Spec2Model ----
(***************************************************************************)
(* A model of econsa.shapley.get_shapley (src/econsa/shapley.py).          *)
(*                                                                         *)
(* The function is modelled as a state machine whose steps are the         *)
(* statements and loop heads of the function body, in program order:       *)
(* permutation generation, allocation of the design matrix, the nested     *)
(* design-building loops, the model evaluation, the estimator loops and    *)
(* the final normalisation.                                                *)
(*                                                                         *)
(* Python sequences are 0-based and TLA+ sequences are 1-based: position   *)
(* i of a Python sequence is position i + 1 of the TLA+ sequence; input    *)
(* indices, loop counters and row offsets keep their Python values.        *)
(*                                                                         *)
(* Floating-point numbers are modelled as exact rationals [num, den] in    *)
(* lowest terms with den > 0; den = 0 stands for the non-finite results    *)
(* numpy produces (nan for 0/0, +-inf for x/0).                            *)
(***************************************************************************)
EXTENDS Integers, Sequences, FiniteSets, TLC

(* ------------------------------ bounds --------------------------------- *)
MaxInputs == 3
MaxPerms == 2
MaxOutput == 2
MaxOuter == 2
MaxInner == 3
MaxSeed == 3
ValMod == 3

(* --------------------------- exact rationals ---------------------------- *)
Abs(x) == IF x < 0 THEN -x ELSE x

RECURSIVE Gcd(_, _)
Gcd(a, b) == IF b = 0 THEN a ELSE Gcd(b, a % b)

NaN == [num |-> 0, den |-> 0]

IsFinite(a) == a.den # 0

\* n / d as a float: lowest terms; 0/0 is nan, x/0 is +-inf
Rat(n, d) ==
    IF d = 0 THEN [num |-> (IF n > 0 THEN 1 ELSE IF n < 0 THEN -1 ELSE 0), den |-> 0]
    ELSE LET g == Gcd(Abs(n), Abs(d))
             s == IF d < 0 THEN -1 ELSE 1
         IN  [num |-> (s * n) \div g, den |-> (s * d) \div g]

Zero == Rat(0, 1)

RAdd(a, b) ==
    IF IsFinite(a) /\ IsFinite(b)
    THEN Rat(a.num * b.den + b.num * a.den, a.den * b.den)
    ELSE NaN

RSub(a, b) ==
    IF IsFinite(a) /\ IsFinite(b)
    THEN Rat(a.num * b.den - b.num * a.den, a.den * b.den)
    ELSE NaN

\* a / b for floats: division by zero gives nan or +-inf, never an exception
RDiv(a, b) ==
    IF IsFinite(a) /\ IsFinite(b)
    THEN Rat(a.num * b.den, a.den * b.num)
    ELSE NaN

\* IEEE equality: a non-finite value is modelled as equal to nothing
REq(a, b) == IsFinite(a) /\ IsFinite(b) /\ a = b

(* ----------------------------- sequences -------------------------------- *)
RECURSIVE SumSeq(_)
SumSeq(s) == IF s = <<>> THEN 0 ELSE Head(s) + SumSeq(Tail(s))

RECURSIVE RSumSeq(_)
RSumSeq(s) == IF s = <<>> THEN Zero ELSE RAdd(Head(s), RSumSeq(Tail(s)))

Min(a, b) == IF a < b THEN a ELSE b
Max(a, b) == IF a > b THEN a ELSE b

\* s[:n] and s[n:] of a Python sequence, n >= 0
Take(s, n) == SubSeq(s, 1, Min(n, Len(s)))
Drop(s, n) == SubSeq(s, Min(n, Len(s)) + 1, Len(s))

RECURSIVE Factorial(_)
Factorial(n) == IF n <= 0 THEN 1 ELSE n * Factorial(n - 1)

(* ----------------------------- numpy ------------------------------------ *)
\* np.var(xs, ddof): mean squared deviation with denominator len - ddof;
\* nan when len - ddof <= 0
Var(xs, ddof) ==
    LET n  == Len(xs)
        s1 == SumSeq(xs)
        s2 == SumSeq([i \in 1..n |-> xs[i] * xs[i]])
    IN  IF n - ddof <= 0 THEN NaN
        ELSE Rat(n * s2 - s1 * s1, n * (n - ddof))

\* np.mean of an array of floats
Mean(rs) == IF Len(rs) = 0 THEN NaN ELSE RDiv(RSumSeq(rs), Rat(Len(rs), 1))

\* np.argsort(perms): the 0-based positions of perms, ordered by the value
\* they hold (ties by position)
ArgSort(perms) ==
    LET n == Len(perms)
        rank(i) == Cardinality({k \in 1..n :
                       perms[k] < perms[i] \/ (perms[k] = perms[i] /\ k < i)})
    IN  [r \in 1..n |-> (CHOOSE i \in 1..n : rank(i) = r - 1) - 1]

(* --------------------------- permutations ------------------------------- *)
RemoveAt(s, i) == SubSeq(s, 1, i - 1) \o SubSeq(s, i + 1, Len(s))

RECURSIVE PermsOf(_)
RECURSIVE PermsFrom(_, _)
\* all orderings of the pool, in the lexicographic order of positions
PermsOf(pool) ==
    IF pool = <<>> THEN << <<>> >> ELSE PermsFrom(pool, 1)
PermsFrom(pool, i) ==
    IF i > Len(pool) THEN <<>>
    ELSE LET rest == PermsOf(RemoveAt(pool, i))
         IN  [k \in 1..Len(rest) |-> <<pool[i]>> \o rest[k]] \o PermsFrom(pool, i + 1)

\* list(itertools.permutations(range(n), n - 1))
ExactPermutationsShort(n) ==
    LET full == PermsOf([i \in 1..n |-> i - 1])
    IN  [k \in 1..Len(full) |-> SubSeq(full[k], 1, n - 1)]

\* list(itertools.permutations(range(n), n)), n >= 0
ExactPermutations(n) == PermsOf([i \in 1..n |-> i - 1])

\* np.random.permutation(n) at the i-th draw (i = 1, 2, ...) of a generator
\* whose hidden state is seed
RandomPermutation(seed, i, n) ==
    ExactPermutations(n)[((seed * i) % Factorial(n)) + 1]

(* --------------------------- collaborators ------------------------------ *)
\* A matrix cell: the float val, and the input index idx the sampler drew it
\* for (idx = -1 for the zeros np.zeros fills in).  idx is bookkeeping only:
\* no step of the function reads it.
Cell(i, v) == [idx |-> i, val |-> v]

ZeroCell == Cell(-1, 0)

\* The samplers and the model are supplied by the caller.  The samplers draw
\* from np.random: what they return depends on the generator's state, given
\* here as tick (the seed plus the number of sampler calls made so far).

\* Xall(n).T : n rows, one column per input index 0..n_inputs-1
XallT(n, ninputs, tick) ==
    [d \in 1..n |-> [k \in 1..ninputs |->
        Cell(k - 1, (k * d + tick) % ValMod)]]

\* np.matrix(Xcond(n, S, Sc, xjc)).T : n rows, one column per index of S, in
\* the order of S; cond is the sequence of conditioning cells (<<>> for None)
XcondT(n, S, cond, tick) ==
    LET c == SumSeq([i \in 1..Len(cond) |-> cond[i].val])
    IN  [d \in 1..n |-> [r \in 1..Len(S) |->
            Cell(S[r], ((S[r] + 1) * d + c + tick) % ValMod)]]

\* model(row): the linear model f(x) = x1 + 2*x2 + 3*x3 + ...
ModelF(row) == SumSeq([k \in 1..Len(row) |-> k * row[k].val])

(* ------------------------------ state ----------------------------------- *)
VARIABLES
    method, n_perms, n_inputs, n_output, n_outer, n_inner,  \* the arguments
    seed,                   \* hidden state of np.random
    pc, err,                \* position in the function body; exception raised
    permutations,           \* the permutation list / array
    model_inputs,           \* the design matrix, a sequence of rows
    p, j, l,                \* loop counters (shared by both loop nests)
    perms, perms_sorted, xjc_sampled,
    output,                 \* model output still to be consumed: [row, val]
    output_variance, conditional_variance,
    previous_cost, shapley_effects,
    effects,                \* the returned table (effects column), <<>> before
    returned,               \* TRUE once the function has returned its table
    n_perms_arg,            \* history: the n_perms the caller passed
    calls, evals,           \* history: sampler calls, model evaluations
    written, writer,        \* history: per design row, writes and writing step
    out_len,                \* history: length of the vector the model returned
    block,                  \* history: last inner block the estimator took
    consumed,               \* history: per design row, times its output was taken
    deltas,                 \* history: the deltas of the current permutation
    adds,                   \* history: per input, deltas accumulated
    splits                  \* history: per permutation, design splits visited

args == <<method, n_perms, n_inputs, n_output, n_outer, n_inner, seed,
          n_perms_arg>>
ctrl == <<pc, err>>
loop == <<p, j, l>>
build == <<perms, perms_sorted, xjc_sampled>>
estim == <<output, output_variance, conditional_variance, previous_cost,
           shapley_effects>>
result == <<effects, returned>>
hist == <<calls, evals, written, writer, out_len, block, consumed, deltas,
          adds, splits>>
vars == <<args, ctrl, permutations, model_inputs, loop, build, estim, result,
          hist>>

Methods == {"exact", "random", "sobol"}

\* number of design rows, line 101
NumRows == n_output + n_perms * (n_inputs - 1) * n_outer * n_inner

NoBlock == [p |-> -1, j |-> -1, l |-> -1, rows |-> <<>>]

\* The arguments: any of three method strings, n_perms and n_inputs from -1
\* up, and positive Monte Carlo sizes, with n_inner >= 2 because the inner
\* variance is taken with ddof = 1 (np.var of a single value is nan).  In
\* exact mode np.random draws no permutation and the seed is fixed.
Init ==
    /\ method \in Methods
    /\ n_perms \in -1..MaxPerms
    /\ n_perms_arg = n_perms
    /\ n_inputs \in -1..MaxInputs
    /\ n_output \in 1..MaxOutput
    /\ n_outer \in 1..MaxOuter
    /\ n_inner \in 2..MaxInner
    /\ seed \in 0..MaxSeed
    /\ (method = "exact" => seed = 0)
    /\ pc = "start" /\ err = "none"
    /\ permutations = <<>>
    /\ model_inputs = <<>>
    /\ p = 0 /\ j = 0 /\ l = 0
    /\ perms = <<>> /\ perms_sorted = <<>> /\ xjc_sampled = <<>>
    /\ output = <<>>
    /\ output_variance = Zero
    /\ conditional_variance = <<>>
    /\ previous_cost = Zero
    /\ shapley_effects = <<>>
    /\ effects = <<>> /\ returned = FALSE
    /\ calls = 0 /\ evals = 0
    /\ written = <<>> /\ writer = <<>>
    /\ out_len = -1
    /\ block = NoBlock
    /\ consumed = <<>>
    /\ deltas = <<>>
    /\ adds = <<>>
    /\ splits = <<>>

\* an exception leaves the function: nothing is returned
Raise(kind) ==
    /\ pc' = "failed"
    /\ err' = kind

(* ----------------------- numpy slice assignment -------------------------- *)
\* number of rows of mat[start : start + n, :] (the slice is clipped)
SliceLen(len, start, n) == Max(0, Min(start + n, len) - Min(start, len))

\* mat[start : start + Len(src), :] = src is accepted when the shapes agree
\* or the source has one row to broadcast; otherwise numpy raises ValueError
Fits(mat, start, src) ==
    \/ Len(src) = SliceLen(Len(mat), start, Len(src))
    \/ Len(src) = 1

AssignRows(mat, start, src) ==
    LET n == SliceLen(Len(mat), start, Len(src))
    IN  [r \in 1..Len(mat) |->
            IF start < r /\ r <= start + n
            THEN (IF Len(src) = 1 THEN src[1] ELSE src[r - start])
            ELSE mat[r]]

\* history of an assignment: the rows it wrote get one more write and the tag
Mark(counts, len, start, n) ==
    [r \in 1..Len(counts) |->
        IF start < r /\ r <= start + SliceLen(len, start, n)
        THEN counts[r] + 1 ELSE counts[r]]

Tag(tags, len, start, n, tag) ==
    [r \in 1..Len(tags) |->
        IF start < r /\ r <= start + SliceLen(len, start, n)
        THEN tag ELSE tags[r]]

(* ------------------------ permutation generator ------------------------- *)
\* lines 88-92
GenPermsExact ==
    /\ pc = "start"
    /\ method = "exact"
    /\ IF n_inputs < 0
       THEN /\ Raise("ValueError")      \* itertools: r must be non-negative
            /\ UNCHANGED <<permutations, n_perms>>
       ELSE /\ permutations' = ExactPermutations(n_inputs)
            /\ n_perms' = Len(permutations')
            /\ pc' = "alloc"
            /\ UNCHANGED err
    /\ UNCHANGED <<method, n_inputs, n_output, n_outer, n_inner, seed,
                   n_perms_arg,
                   model_inputs, loop, build, estim, result, hist>>

\* lines 93-98: every method other than 'exact' takes the else branch;
\* np.int(permutations.shape[0]) is the number of rows of the array
GenPermsRandom ==
    /\ pc = "start"
    /\ method # "exact"
    /\ IF n_perms < 0 \/ n_inputs < 0
       THEN /\ Raise("ValueError")      \* np.zeros: negative dimensions
            /\ UNCHANGED <<permutations, n_perms>>
       ELSE /\ permutations' =
                  [i \in 1..n_perms |-> RandomPermutation(seed, i, n_inputs)]
            /\ n_perms' = Len(permutations')
            /\ pc' = "alloc"
            /\ UNCHANGED err
    /\ UNCHANGED <<method, n_inputs, n_output, n_outer, n_inner, seed,
                   n_perms_arg,
                   model_inputs, loop, build, estim, result, hist>>

(* ---------------------------- design builder ---------------------------- *)
\* line 101
Allocate ==
    /\ pc = "alloc"
    /\ IF NumRows < 0
       THEN /\ Raise("ValueError")      \* np.zeros: negative dimensions
            /\ UNCHANGED <<model_inputs, written, writer>>
       ELSE /\ model_inputs' = [r \in 1..NumRows |-> [k \in 1..n_inputs |-> ZeroCell]]
            /\ written' = [r \in 1..NumRows |-> 0]
            /\ writer' = [r \in 1..NumRows |-> <<-1, -1, -1>>]
            /\ pc' = "sample"
            /\ UNCHANGED err
    /\ UNCHANGED <<args, permutations, loop, build, estim, result, calls,
                   evals, out_len, block, consumed, deltas, adds, splits>>

\* line 102
FillUnconditional ==
    /\ pc = "sample"
    /\ calls' = calls + 1
    /\ LET src == XallT(n_output, n_inputs, seed + calls)
       IN  IF Fits(model_inputs, 0, src)
           THEN /\ model_inputs' = AssignRows(model_inputs, 0, src)
                /\ written' = Mark(written, Len(model_inputs), 0, n_output)
                /\ pc' = "build_p"
                /\ UNCHANGED err
           ELSE /\ Raise("ValueError")  \* could not broadcast input array
                /\ UNCHANGED <<model_inputs, written>>
    /\ p' = 0                           \* entry of the loop of line 104
    /\ UNCHANGED <<args, permutations, j, l, build, estim, result, evals,
                   writer, out_len, block, consumed, deltas, adds, splits>>

\* lines 104-107
BuildPerm ==
    /\ pc = "build_p"
    /\ IF p < n_perms
       THEN /\ perms' = permutations[p + 1]
            /\ perms_sorted' = ArgSort(perms')
            /\ j' = 1
            /\ splits' = Append(splits, 0)
            /\ pc' = "build_j"
       ELSE /\ pc' = "eval"
            /\ UNCHANGED <<perms, perms_sorted, j, splits>>
    /\ UNCHANGED <<args, err, permutations, model_inputs, p, l, xjc_sampled,
                   estim, result, calls, evals, written, writer, out_len,
                   block, consumed, deltas, adds>>

\* line 111
Sj == Take(perms, j)
\* line 113
Sjc == Drop(perms, j)

\* lines 109-116
BuildSplit ==
    /\ pc = "build_j"
    /\ IF j < n_inputs
       THEN /\ xjc_sampled' = XcondT(n_outer, Sjc, <<>>, seed + calls)
            /\ calls' = calls + 1
            /\ l' = 0
            /\ splits' = [splits EXCEPT ![p + 1] = @ + 1]
            /\ pc' = "build_l"
            /\ UNCHANGED p
       ELSE /\ p' = p + 1
            /\ pc' = "build_p"
            /\ UNCHANGED <<xjc_sampled, calls, l, splits>>
    /\ UNCHANGED <<args, err, permutations, model_inputs, j, perms,
                   perms_sorted, estim, result, evals, written, writer,
                   out_len, block, consumed, deltas, adds>>

\* line 124, and the same with the strides of p and j exchanged, and with the
\* stride of l taken from n_outer
InnerIndicesSwapped(pp, jj, ll) ==
    n_output + pp * n_outer * n_inner
             + (jj - 1) * n_perms * n_outer * n_inner + ll * n_inner
InnerIndicesOuterStride(pp, jj, ll) ==
    n_output + pp * (n_inputs - 1) * n_outer * n_inner
             + (jj - 1) * n_outer * n_inner + ll * n_outer
InnerIndices(pp, jj, ll) ==
    n_output + pp * (n_inputs - 1) * n_outer * n_inner
             + (jj - 1) * n_outer * n_inner + ll * n_inner

\* line 125: row[:, perms_sorted], and the same indexed by perms
UnpermuteByPerms(row, order) == [k \in 1..Len(perms) |-> row[perms[k] + 1]]
Unpermute(row, order) == [k \in 1..Len(order) |-> row[order[k] + 1]]

\* lines 118-125
BuildInner ==
    /\ pc = "build_l"
    /\ IF l < n_outer
       THEN LET xjc == xjc_sampled[l + 1]
                sample_inputs == XcondT(n_inner, Sj, xjc, seed + calls)
                concatenated_sample ==
                    [d \in 1..n_inner |-> sample_inputs[d] \o xjc]
                src == [d \in 1..n_inner |->
                           Unpermute(concatenated_sample[d], perms_sorted)]
                inner_indices == InnerIndices(p, j, l)
            IN  /\ calls' = calls + 1
                /\ IF Fits(model_inputs, inner_indices, src)
                   THEN /\ model_inputs' =
                              AssignRows(model_inputs, inner_indices, src)
                        /\ written' = Mark(written, Len(model_inputs),
                                           inner_indices, n_inner)
                        /\ writer' = Tag(writer, Len(model_inputs),
                                         inner_indices, n_inner, <<p, j, l>>)
                        /\ l' = l + 1
                        /\ UNCHANGED <<pc, err>>
                   ELSE /\ Raise("ValueError")
                        /\ UNCHANGED <<model_inputs, written, writer, l>>
                /\ UNCHANGED j
       ELSE /\ j' = j + 1
            /\ pc' = "build_j"
            /\ UNCHANGED <<err, model_inputs, written, writer, l, calls>>
    /\ UNCHANGED <<args, permutations, p, build, estim, result, evals,
                   out_len, block, consumed, deltas, adds, splits>>

(* --------------------------- model evaluation --------------------------- *)
\* model(model_inputs): one scalar per design row, in row order; row is the
\* 0-based design row the value was computed from (history only)
ModelOutput ==
    [r \in 1..Len(model_inputs) |->
        [row |-> r - 1, val |-> ModelF(model_inputs[r])]]

\* line 128, the evaluator honouring its interface
EvalModel ==
    /\ pc = "eval"
    /\ output' = ModelOutput
    /\ out_len' = Len(output')
    /\ evals' = evals + 1
    /\ pc' = "split_output"
    /\ UNCHANGED <<args, err, permutations, model_inputs, loop, build,
                   output_variance, conditional_variance, previous_cost,
                   shapley_effects, result, calls, written, writer, block,
                   consumed, deltas, adds, splits>>

\* line 128, an evaluator returning one value too few or one too many
EvalModelMismatch ==
    /\ pc = "eval"
    /\ \/ /\ Len(model_inputs) > 0
          /\ output' = Take(ModelOutput, Len(model_inputs) - 1)
       \/ output' = Append(ModelOutput, [row |-> Len(model_inputs), val |-> 0])
    /\ out_len' = Len(output')
    /\ evals' = evals + 1
    /\ pc' = "split_output"
    /\ UNCHANGED <<args, err, permutations, model_inputs, loop, build,
                   output_variance, conditional_variance, previous_cost,
                   shapley_effects, result, calls, written, writer, block,
                   consumed, deltas, adds, splits>>

(* --------------------------- effect estimator --------------------------- *)
Vals(blk) == [i \in 1..Len(blk) |-> blk[i].val]
Rows(blk) == [i \in 1..Len(blk) |-> blk[i].row]

\* history: the design rows in blk have their output taken once more
Consume(counts, blk) ==
    [r \in 1..Len(counts) |->
        counts[r] + Cardinality({i \in 1..Len(blk) : blk[i].row = r - 1})]

\* lines 131-140
SplitOutput ==
    /\ pc = "split_output"
    /\ shapley_effects' = [k \in 1..n_inputs |-> Zero]
    /\ LET model_output == Take(output, n_output)
       IN  /\ output_variance' = Var(Vals(model_output), 0)
           /\ consumed' = Consume([r \in 1..Len(model_inputs) |-> 0], model_output)
    /\ output' = Drop(output, n_output)
    /\ conditional_variance' = [i \in 1..n_outer |-> Zero]
    /\ adds' = [k \in 1..n_inputs |-> 0]
    /\ p' = 0                           \* entry of the loop of line 143
    /\ pc' = "est_p"
    /\ UNCHANGED <<args, err, permutations, model_inputs, j, l, build,
                   previous_cost, result, calls, evals, written, writer,
                   out_len, block, deltas, splits>>

\* line 146: previous_cost at the start of a permutation, and the value it
\* would have were it not reset
PreviousCostKept == previous_cost
PreviousCostAtStart == Zero

\* lines 143-146
EstPerm ==
    /\ pc = "est_p"
    /\ IF p < n_perms
       THEN /\ perms' = permutations[p + 1]
            /\ previous_cost' = PreviousCostAtStart
            /\ j' = 0
            /\ deltas' = <<>>
            /\ pc' = "est_j"
       ELSE /\ pc' = "normalise"
            /\ UNCHANGED <<perms, previous_cost, j, deltas>>
    /\ UNCHANGED <<args, err, permutations, model_inputs, p, l, perms_sorted,
                   xjc_sampled, output, output_variance, conditional_variance,
                   shapley_effects, result, calls, evals, written, writer,
                   out_len, block, consumed, adds, splits>>

\* line 149, and the same one split late
IsLastSplitNever(jj) == jj = n_inputs
IsLastSplit(jj) == jj = n_inputs - 1

\* lines 151/159 and 161-164: delta, the accumulation at perms[j], and the
\* update of previous_cost
Accumulate(estimated_cost) ==
    LET delta == RSub(estimated_cost, previous_cost)
    IN  /\ shapley_effects' =
              [shapley_effects EXCEPT ![perms[j + 1] + 1] = RAdd(@, delta)]
        /\ adds' = [adds EXCEPT ![perms[j + 1] + 1] = @ + 1]
        /\ deltas' = Append(deltas, delta)
        /\ previous_cost' = estimated_cost
        /\ j' = j + 1

\* lines 148-153
EstSplit ==
    /\ pc = "est_j"
    /\ IF j < n_inputs
       THEN IF IsLastSplit(j)
            THEN /\ Accumulate(output_variance)
                 /\ UNCHANGED <<pc, p, l>>
            ELSE /\ l' = 0
                 /\ pc' = "est_l"
                 /\ UNCHANGED <<p, j, shapley_effects, adds, deltas,
                                previous_cost>>
       ELSE /\ p' = p + 1
            /\ pc' = "est_p"
            /\ UNCHANGED <<j, l, shapley_effects, adds, deltas, previous_cost>>
    /\ UNCHANGED <<args, err, permutations, model_inputs, build, output,
                   output_variance, conditional_variance, result, calls,
                   evals, written, writer, out_len, block, consumed, splits>>

\* lines 154-164
EstInner ==
    /\ pc = "est_l"
    /\ IF l < n_outer
       THEN LET model_output == Take(output, n_inner)
            IN  /\ output' = Drop(output, n_inner)
                /\ conditional_variance' =
                      [conditional_variance EXCEPT ![l + 1] =
                          Var(Vals(model_output), 1)]
                /\ block' = [p |-> p, j |-> j, l |-> l,
                             rows |-> Rows(model_output)]
                /\ consumed' = Consume(consumed, model_output)
                /\ l' = l + 1
                /\ UNCHANGED <<pc, j, shapley_effects, adds, deltas,
                               previous_cost>>
       ELSE /\ Accumulate(Mean(conditional_variance))
            /\ pc' = "est_j"
            /\ UNCHANGED <<output, conditional_variance, block, consumed, l>>
    /\ UNCHANGED <<args, err, permutations, model_inputs, p, build,
                   output_variance, result, calls, evals, written, writer,
                   out_len, splits>>

\* line 166, and the same without the division by n_perms
NormaliseNoPerms(acc) == RDiv(acc, output_variance)
Normalise(acc) == RDiv(RDiv(acc, Rat(n_perms, 1)), output_variance)

\* lines 166-183: the effects column of the returned table
Return ==
    /\ pc = "normalise"
    /\ effects' = [k \in 1..n_inputs |-> Normalise(shapley_effects[k])]
    /\ returned' = TRUE
    /\ pc' = "done"
    /\ UNCHANGED <<args, err, permutations, model_inputs, loop, build, estim,
                   hist>>

(* --------------------------- specifications ----------------------------- *)
Next ==
    \/ GenPermsExact
    \/ GenPermsRandom
    \/ Allocate
    \/ FillUnconditional
    \/ BuildPerm
    \/ BuildSplit
    \/ BuildInner
    \/ EvalModel
    \/ SplitOutput
    \/ EstPerm
    \/ EstSplit
    \/ EstInner
    \/ Return

\* the model evaluator honours its interface: one value per design row
Spec == Init /\ [][Next]_vars

\* the model evaluator may also return a vector of the wrong length
NextAnyModel == Next \/ EvalModelMismatch

SpecAnyModel == Init /\ [][NextAnyModel]_vars

(* ------------------------------ claims ---------------------------------- *)
IsPermutation(q, k) ==
    /\ Len(q) = k
    /\ \A v \in 0..(k - 1) : Cardinality({i \in 1..k : q[i] = v}) = 1

\* C1: with method 'exact' and n_inputs = k >= 1, once the permutations are
\* generated the list holds exactly k! pairwise distinct sequences, each
\* holding every index of 0..k-1 exactly once, and n_perms is k! whatever the
\* caller passed: the design has n_output + k!*(k-1)*n_outer*n_inner rows and
\* the effects are the accumulated deltas divided by k! and output_variance.
ExactPermutationsComplete ==
    (method = "exact" /\ n_inputs >= 1 /\ pc # "start") =>
        LET k == n_inputs
            f == Factorial(k)
        IN  /\ Len(permutations) = f
            /\ pc \in {"alloc", "done"} =>
                   /\ \A a, b \in 1..Len(permutations) :
                          a # b => permutations[a] # permutations[b]
                   /\ \A a \in 1..Len(permutations) :
                          IsPermutation(permutations[a], k)
            /\ n_perms = f
            /\ pc \notin {"alloc", "failed"} =>
                   Len(model_inputs) = n_output + f * (k - 1) * n_outer * n_inner
            /\ (pc = "done" /\ output_variance # Zero) =>
                   \A i \in 1..k :
                       REq(shapley_effects[i],
                           RDiv(Rat(effects[i].num * f * output_variance.num, 1),
                                Rat(effects[i].den * output_variance.den, 1)))

\* (the list is examined when it has just been generated and again when the
\* function returns; no step in between assigns it)
\* C1 witness: an exact run over three inputs has finished although the caller
\* passed an n_perms that is not 3!
ExactPermutationsWitness ==
    /\ method = "exact" /\ n_inputs = 3 /\ pc = "done"
    /\ n_perms_arg # 6 /\ n_perms = 6
    /\ output_variance # Zero

\* C2: a method other than "exact" or "random" fails at once: no permutation
\* is drawn, no sampler is called, the model is never evaluated and no table
\* is returned.
UnsupportedMethodRejected ==
    method \notin {"exact", "random"} =>
        /\ pc \in {"start", "failed"}
        /\ permutations = <<>>
        /\ calls = 0 /\ evals = 0
        /\ ~returned

\* C3: with n_inputs < 1 (either method), or with method random and
\* n_perms < 1, the function fails before any sampler call or model
\* evaluation and returns no table.
InvalidSizesRejected ==
    (n_inputs < 1 \/ (method = "random" /\ n_perms_arg < 1)) =>
        /\ calls = 0 /\ evals = 0
        /\ ~returned
        /\ pc # "done"

\* C4: when the model returns a vector whose length differs from the number
\* of design rows, the function aborts: it takes no further step with that
\* output and returns no table.
MismatchedOutputRejected ==
    (out_len >= 0 /\ out_len # Len(model_inputs)) =>
        /\ pc \in {"split_output", "failed"}
        /\ ~returned

RowsOf(pp, jj, ll) == {r \in 1..Len(writer) : writer[r] = <<pp, jj, ll>>}

\* C7: column un-permutation.  Each row of the block the builder has just
\* written holds in column k a value sampled for original input index k; the
\* columns of the conditioning indices Sjc hold the one replicated outer draw
\* and the columns of Sj hold the inner draws.
ColumnsUnpermuted ==
    (pc = "build_l" /\ l >= 1) =>
        LET rows == RowsOf(p, j, l - 1)
            xjc  == xjc_sampled[l]
        IN  /\ Cardinality(rows) = n_inner
            /\ \A r \in rows :
                   /\ \A k \in 1..n_inputs : model_inputs[r][k].idx = k - 1
                   /\ \A i \in 1..Len(Sjc) : model_inputs[r][Sjc[i] + 1] = xjc[i]

\* C7 witness: a block has been written for the permutation [2, 0, 1]
ColumnsUnpermutedWitness ==
    /\ pc = "build_l" /\ l >= 1
    /\ perms = <<2, 0, 1>>
    /\ perms_sorted = <<1, 2, 0>>

\* C8: with n_inputs = 2 and the exact method there are exactly 2
\* permutations, the builder visits exactly one split (j = 1) per permutation,
\* the estimator takes no block at split j = 1 and uses output_variance as its
\* cost, and no step of the run raises.
TwoInputsExact ==
    (method = "exact" /\ n_inputs = 2) =>
        /\ pc # "start" => Len(permutations) = 2 /\ n_perms = 2
        /\ pc # "failed" /\ err = "none"
        /\ pc \in {"build_j", "build_l"} => j \in {1, 2}
        /\ pc = "build_l" => j = 1
        /\ \A i \in 1..Len(splits) :
               /\ splits[i] <= 1
               /\ (i <= p \/ pc \notin {"build_p", "build_j", "build_l"}) =>
                      splits[i] = 1
        /\ pc = "est_l" => j = 0
        /\ block.j \in {-1, 0}
        /\ (pc = "est_j" /\ j = 2) =>
               /\ previous_cost = output_variance
               /\ Len(output) = (n_perms - p - 1) * n_outer * n_inner
        /\ pc = "done" => returned

\* C8 witness: the exact run over two inputs has returned
TwoInputsExactWitness ==
    /\ method = "exact" /\ n_inputs = 2 /\ pc = "done" /\ returned
    /\ splits = <<1, 1>>

\* the design rows (0-based) of the block at builder step (pp, jj, ll)
BlockRange(pp, jj, ll) ==
    InnerIndices(pp, jj, ll)..(InnerIndices(pp, jj, ll) + n_inner - 1)

BuildSteps == (0..(n_perms - 1)) \X (1..(n_inputs - 1)) \X (0..(n_outer - 1))

\* C9: block layout.  The row ranges of the blocks (p, j, l) are pairwise
\* disjoint, none meets the unconditional rows [0, n_output), together they
\* are the rows [n_output, number of rows); no row is written twice, and when
\* the model is evaluated every row has been written exactly once.
BlockLayout ==
    /\ pc = "sample" =>
           /\ \A s, t \in BuildSteps :
                  s # t => BlockRange(s[1], s[2], s[3])
                             \cap BlockRange(t[1], t[2], t[3]) = {}
           /\ UNION {BlockRange(s[1], s[2], s[3]) : s \in BuildSteps}
                  = n_output..(Len(model_inputs) - 1)
    /\ pc \in {"build_p", "build_j", "build_l", "eval"} =>
           \A r \in 1..Len(written) :
               /\ written[r] <= 1
               /\ r <= n_output => writer[r] = <<-1, -1, -1>>
               /\ pc = "eval" =>
                      /\ written[r] = 1
                      /\ r > n_output => writer[r] # <<-1, -1, -1>>

\* C9 witness: the design for two permutations over three inputs with two
\* outer draws is complete and about to be evaluated
BlockLayoutWitness ==
    /\ pc = "eval" /\ n_perms >= 2 /\ n_inputs = 3 /\ n_outer = 2
    /\ Len(model_inputs) = n_output + n_perms * 2 * 2 * n_inner

\* C10: lock-step traversal.  The block the estimator takes at step (p, j, l),
\* j in 0..n_inputs-2, is the model output of exactly the design rows the
\* builder wrote at step (p, j+1, l); when the last permutation is finished no
\* output is left and every design row's output has been taken exactly once.
LockStep ==
    /\ (pc = "est_l" /\ l >= 1) =>
           /\ block.p = p /\ block.j = j /\ block.l = l - 1
           /\ block.j \in 0..(n_inputs - 2)
           /\ Len(block.rows) = n_inner
           /\ {block.rows[i] + 1 : i \in 1..Len(block.rows)}
                  = RowsOf(block.p, block.j + 1, block.l)
    /\ pc = "split_output" =>
           \A i \in 1..Len(output) :
               /\ output[i].row = i - 1
               /\ output[i].val = ModelF(model_inputs[i])
    /\ pc \in {"normalise", "done"} =>
           /\ output = <<>>
           /\ \A r \in 1..Len(consumed) : consumed[r] = 1

\* C10 witness: the estimator has taken the last block of the second
\* permutation over three inputs
LockStepWitness ==
    /\ block.p = 1 /\ block.j = 1 /\ block.l = n_outer - 1
    /\ n_inputs = 3 /\ n_outer = 2
    /\ pc = "est_l"

====
